---- MODULE Spec2Model ----
(***************************************************************************)
(* A model of dvc/fs/fsspec_wrapper.py: the wrappers that adapt an fsspec  *)
(* driver (self.fs) to dvc's filesystem contract.                          *)
(*                                                                         *)
(* Paths are strings, modelled as sequences of one-character strings, so   *)
(* that parent(), parts()[-1], endswith("/") and prefix matching are       *)
(* computed on the characters as the code computes them.                   *)
(*                                                                         *)
(* The backend is a map from path to object.  A hierarchical backend holds *)
(* files and real directories; an object store holds files and zero-byte   *)
(* marker objects (key "p/"), and a path with keys below it is an implicit *)
(* directory.                                                              *)
(***************************************************************************)
EXTENDS Naturals, Sequences, FiniteSets

VARIABLES
    kind,        \* "hier" (FSSpecWrapper) or "object" (ObjectFSWrapper)
    mixin,       \* "none", "nodir" (NoDirectoriesMixin) or "callback" (CallbackMixin)
    markerStyle, \* how the driver's info() reports a marker object: "dir" or "file"
    store,       \* the backend: path -> object
    dircache,    \* the driver's listing cache: directory -> entries last listed
    streams,     \* the streams currently open
    xfer,        \* the transfer in progress (position, arguments), if any
    last         \* the last completed call: operation, arguments, outcome

vars == <<kind, mixin, markerStyle, store, dircache, streams, xfer, last>>

----------------------------------------------------------------------------
(* Bounds *)

\* The largest number of chunks a transferred file is made of.
MaxChunks == 1

----------------------------------------------------------------------------
(* Strings and paths *)

SEP == "/"

pRoot == << >>
pA    == <<"a">>
pAB   == <<"a", "/", "b">>
pABar == <<"a", "/", "b", "a", "r">>
pABaz == <<"a", "/", "b", "a", "z">>
pAQux == <<"a", "/", "q", "u", "x">>
pFoo  == <<"f", "o", "o">>

\* The paths the calls are made on.
Paths == {pA, pAB, pABar, pABaz, pAQux, pFoo}

\* The paths makedirs is called on.
DirPaths == {pA, pFoo}

endswith(s, c) == Len(s) > 0 /\ s[Len(s)] = c

startswith(s, pre) == Len(pre) <= Len(s) /\ SubSeq(s, 1, Len(pre)) = pre

\* The index of the last separator of s, 0 when it has none.
LastSep(s) ==
    LET idx == {i \in 1..Len(s) : s[i] = SEP}
    IN  IF idx = {} THEN 0 ELSE CHOOSE i \in idx : \A j \in idx : j <= i

\* self.path.parent(path)
parent(s) == IF LastSep(s) = 0 THEN pRoot ELSE SubSeq(s, 1, LastSep(s) - 1)

\* self.path.parts(path)[-1]
lastpart(s) == SubSeq(s, LastSep(s) + 1, Len(s))

\* Key k lies below directory d.
Under(d, k) == IF d = pRoot THEN Len(k) > 0 ELSE startswith(k, d \o <<SEP>>)

\* d and the directories above it.
UpTo(d) == {d} \cup {x \in Paths \cup {pRoot} : Under(x, d)}

----------------------------------------------------------------------------
(* Objects, entries, results *)

NoObj     == [t |-> "none", size |-> 0]
FileObj(n) == [t |-> "file", size |-> n]
DirObj    == [t |-> "dir", size |-> 0]
MarkerObj == [t |-> "marker", size |-> 0]

NoEntry == [name |-> pRoot, type |-> "-", size |-> 0]

\* What a call ends with.  err is "OK" or the exception raised; calls are the
\* driver primitives invoked; raised are the exceptions the driver raised;
\* cache is the driver's listing cache after the call.
Result(err, val, items, entry, calls, raised, cache) ==
    [err |-> err, val |-> val, items |-> items, entry |-> entry,
     calls |-> calls, raised |-> raised, cache |-> cache]

Ok(calls, cache) == Result("OK", FALSE, {}, NoEntry, calls, {}, cache)

\* Exception e raised by the driver.
Raise(e, calls, cache) == Result(e, FALSE, {}, NoEntry, calls, {e}, cache)

\* Exception e raised by the wrapper itself.
Throw(e, calls, raised, cache) == Result(e, FALSE, {}, NoEntry, calls, raised, cache)

----------------------------------------------------------------------------
(* The driver, self.fs: the primitives the wrappers call.  Each takes the   *)
(* backend s (and the listing cache c where it reads or changes it).        *)

HasKeysBelow(s, p) == \E k \in Paths : s[k].t # "none" /\ Under(p, k)

DrvExists(s, p) == p = pRoot \/ s[p].t # "none" \/ HasKeysBelow(s, p)

DrvIsFile(s, p) == p # pRoot /\ s[p].t = "file"

DrvIsDir(s, p) == DrvExists(s, p) /\ ~DrvIsFile(s, p)

\* The entry the driver reports for an existing path.  A childless marker
\* object "p/" is reported as a directory by some drivers and as the
\* zero-byte file "p/" by others.
DrvEntry(s, p) ==
    IF DrvIsFile(s, p)
    THEN [name |-> p, type |-> "file", size |-> s[p].size]
    ELSE IF p # pRoot /\ s[p].t = "marker" /\ markerStyle = "file"
            /\ ~HasKeysBelow(s, p)
    THEN [name |-> p \o <<SEP>>, type |-> "file", size |-> 0]
    ELSE [name |-> p, type |-> "directory", size |-> 0]

\* self.fs.info(path)
fs_info(s, c, p) ==
    IF DrvExists(s, p)
    THEN Result("OK", FALSE, {}, DrvEntry(s, p), {"info"}, {}, c)
    ELSE Raise("NotFound", {"info"}, c)

\* self.fs.isdir(path): on an absent path a strict driver raises, a lenient
\* one answers False.
fs_isdir(s, c, p, strict) ==
    IF DrvExists(s, p)
    THEN Result("OK", DrvIsDir(s, p), {}, NoEntry, {"isdir"}, {}, c)
    ELSE IF strict THEN Raise("NotFound", {"isdir"}, c)
    ELSE Result("OK", FALSE, {}, NoEntry, {"isdir"}, {}, c)

\* self.fs.exists(path)
fs_exists(s, c, p) ==
    Result("OK", DrvExists(s, p), {}, NoEntry, {"exists"}, {}, c)

\* self.fs.checksum(path)
fs_checksum(s, c, p) ==
    IF DrvExists(s, p) THEN Ok({"checksum"}, c)
    ELSE Raise("NotFound", {"checksum"}, c)

\* An item of a listing: the entry (detail) or the name alone.
Name(p) == [name |-> p]

Item(s, p, detail) == IF detail THEN DrvEntry(s, p) ELSE Name(p)

Names(entries) == {Name(e.name) : e \in entries}

\* The paths directly in directory d.
Children(s, d) == {k \in Paths : parent(k) = d /\ DrvExists(s, k)}

\* self.fs.ls(path, detail): served from the listing cache when the directory
\* is cached; a listing read from the backend is cached.
fs_ls(s, c, p, detail) ==
    IF p \in DOMAIN c
    THEN Result("OK", FALSE, IF detail THEN c[p] ELSE Names(c[p]), NoEntry,
                {"ls"}, {}, c)
    ELSE IF ~DrvExists(s, p) THEN Raise("NotFound", {"ls"}, c)
    ELSE IF DrvIsFile(s, p)
    THEN Result("OK", FALSE, {Item(s, p, detail)}, NoEntry, {"ls"}, {}, c)
    ELSE LET listing == {DrvEntry(s, k) : k \in Children(s, p)}
             c2 == [d \in DOMAIN c \cup {p} |-> IF d = p THEN listing ELSE c[d]]
         IN  Result("OK", FALSE, IF detail THEN listing ELSE Names(listing),
                    NoEntry, {"ls"}, {}, c2)

\* The keys a recursive listing reports: files, and marker objects.
Listed(s, k) == s[k].t \in {"file", "marker"}

\* An item of a recursive listing, keyed by the path found.
FindItem(s, k, detail) ==
    IF detail THEN [DrvEntry(s, k) EXCEPT !.name = k] ELSE Name(k)

\* The paths self.fs.find(path) reports: the keys below path; path itself when
\* it is a single key with nothing below it.
FindKeys(s, p) ==
    LET below == {k \in Paths : Listed(s, k) /\ Under(p, k)}
    IN  IF below = {} /\ p # pRoot /\ Listed(s, p) THEN {p} ELSE below

\* self.fs.find(path, detail): on an absent path a strict driver raises, a
\* lenient one reports nothing.
fs_find(s, c, p, detail, strict) ==
    IF ~DrvExists(s, p) /\ strict THEN Raise("NotFound", {"find"}, c)
    ELSE Result("OK", FALSE, {FindItem(s, k, detail) : k \in FindKeys(s, p)},
                NoEntry, {"find"}, {}, c)

\* self.fs.find(path, detail, prefix=...): the keys below path whose last
\* segment starts with prefix.
fs_find_prefix(s, c, p, detail, prefix, strict) ==
    IF ~DrvExists(s, p) /\ strict THEN Raise("NotFound", {"find"}, c)
    ELSE Result("OK", FALSE,
                {FindItem(s, k, detail) :
                    k \in {x \in Paths : /\ Listed(s, x)
                                         /\ Under(p, x)
                                         /\ startswith(lastpart(x), prefix)}},
                NoEntry, {"find"}, {}, c)

\* self.fs.invalidate_cache(path): drops the listing of path and of the
\* directories above it.
fs_invalidate_cache(c, p) == [d \in DOMAIN c \ UpTo(p) |-> c[d]]

\* What a call that writes ends with: as Result, with the backend after it.
Written(err, calls, raised, s, c) ==
    [err |-> err, calls |-> calls, raised |-> raised, store |-> s, cache |-> c]

\* A local file: whether it exists, and its size in chunks.
LocalFiles ==
    {[exists |-> FALSE, size |-> 0]}
        \cup {[exists |-> TRUE, size |-> n] : n \in 0..MaxChunks}

\* A hierarchical backend writes only into an existing directory.
ParentMissing(s, p) == kind = "hier" /\ ~DrvIsDir(s, parent(p))

\* self.fs.makedirs(path, exist_ok)
fs_makedirs(s, c, p, exist_ok) ==
    IF DrvIsDir(s, p)
    THEN IF exist_ok THEN Written("OK", {"makedirs"}, {}, s, c)
         ELSE Written("AlreadyExists", {"makedirs"}, {"AlreadyExists"}, s, c)
    ELSE IF \E k \in UpTo(p) \ {pRoot} : DrvIsFile(s, k)
    THEN Written("AlreadyExists", {"makedirs"}, {"AlreadyExists"}, s, c)
    ELSE Written("OK", {"makedirs"}, {},
                 [k \in Paths |-> IF k \in UpTo(p) THEN DirObj ELSE s[k]],
                 fs_invalidate_cache(c, p))

\* self.fs.rm_file(path)
fs_rm_file(s, c, p) ==
    IF ~DrvExists(s, p) THEN Written("NotFound", {"rm_file"}, {"NotFound"}, s, c)
    ELSE IF ~DrvIsFile(s, p)
    THEN Written("IsADirectory", {"rm_file"}, {"IsADirectory"}, s, c)
    ELSE Written("OK", {"rm_file"}, {}, [s EXCEPT ![p] = NoObj],
                 fs_invalidate_cache(c, parent(p)))

\* Why the driver refuses to write a file at "to", "OK" when it does not.
WriteRefused(s, to) ==
    IF ParentMissing(s, to) THEN "NotFound"
    ELSE IF DrvIsDir(s, to) THEN "IsADirectory"
    ELSE "OK"

\* self.fs.copy(from, to)
fs_copy(s, c, from, to) ==
    IF ~DrvExists(s, from) THEN Written("NotFound", {"copy"}, {"NotFound"}, s, c)
    ELSE IF ~DrvIsFile(s, from)
    THEN Written("IsADirectory", {"copy"}, {"IsADirectory"}, s, c)
    ELSE IF WriteRefused(s, to) # "OK"
    THEN Written(WriteRefused(s, to), {"copy"}, {WriteRefused(s, to)}, s, c)
    ELSE Written("OK", {"copy"}, {}, [s EXCEPT ![to] = s[from]],
                 fs_invalidate_cache(c, parent(to)))

\* self.fs.move(from, to)
fs_move(s, c, from, to) ==
    IF ~DrvExists(s, from) THEN Written("NotFound", {"move"}, {"NotFound"}, s, c)
    ELSE IF ~DrvIsFile(s, from)
    THEN Written("IsADirectory", {"move"}, {"IsADirectory"}, s, c)
    ELSE IF WriteRefused(s, to) # "OK"
    THEN Written(WriteRefused(s, to), {"move"}, {WriteRefused(s, to)}, s, c)
    ELSE Written("OK", {"move"}, {},
                 [s EXCEPT ![to] = s[from], ![from] = IF from = to THEN s[from] ELSE NoObj],
                 fs_invalidate_cache(fs_invalidate_cache(c, parent(to)), parent(from)))

\* self.fs.put_file(from_file, to): the upload itself; this driver leaves its
\* listing cache as it is.
fs_put_file(s, c, lf, to) ==
    IF ~lf.exists THEN Written("NotFound", {"put_file"}, {"NotFound"}, s, c)
    ELSE IF WriteRefused(s, to) # "OK"
    THEN Written(WriteRefused(s, to), {"put_file"}, {WriteRefused(s, to)}, s, c)
    ELSE Written("OK", {"put_file"}, {}, [s EXCEPT ![to] = FileObj(lf.size)], c)

\* self.fs.get_file(from, to): localOk is whether the local file can be written.
fs_get_file(s, c, from, localOk) ==
    IF ~DrvExists(s, from) THEN Written("NotFound", {"get_file"}, {"NotFound"}, s, c)
    ELSE IF ~DrvIsFile(s, from)
    THEN Written("IsADirectory", {"get_file"}, {"IsADirectory"}, s, c)
    ELSE IF ~localOk THEN Written("IOError", {"get_file"}, {"IOError"}, s, c)
    ELSE Written("OK", {"get_file"}, {}, s, c)

\* self.fs.open(path, mode): the exception raised, "OK" when a stream is returned.
fs_open(s, p, mode) ==
    IF mode = "rb"
    THEN IF ~DrvExists(s, p) THEN "NotFound"
         ELSE IF ~DrvIsFile(s, p) THEN "IsADirectory" ELSE "OK"
    ELSE WriteRefused(s, p)

----------------------------------------------------------------------------
(* FSSpecWrapper, ObjectFSWrapper and NoDirectoriesMixin: the calls that    *)
(* read.  A method a mixin or ObjectFSWrapper overrides is dispatched as    *)
(* Python resolves it: the mixin first, then ObjectFSWrapper, then          *)
(* FSSpecWrapper.                                                           *)

\* FSSpecWrapper.info
info(p) == fs_info(store, dircache, p)

\* FSSpecWrapper._isdir
FSSpecWrapper__isdir(p, strict) == fs_isdir(store, dircache, p, strict)

\* The test without the marker-object case.
IsDirEntryTypeOnly(entry) == entry.type = "directory"

\* The test ObjectFSWrapper._isdir makes on the entry.
IsDirEntry(entry) ==
    \/ entry.type = "directory"
    \/ /\ entry.size = 0
       /\ entry.type = "file"
       /\ endswith(entry.name, SEP)

\* ObjectFSWrapper._isdir
ObjectFSWrapper__isdir(p) ==
    LET r == info(p)
    IN  IF r.err # "OK" THEN r
        ELSE [r EXCEPT !.val = IsDirEntry(r.entry), !.entry = NoEntry]

\* self._isdir
isdir_(p, strict) ==
    IF kind = "object" THEN ObjectFSWrapper__isdir(p)
    ELSE FSSpecWrapper__isdir(p, strict)

\* FSSpecWrapper.isdir
FSSpecWrapper_isdir(p, strict) ==
    LET r == isdir_(p, strict)
    IN  IF r.err = "NotFound" THEN [r EXCEPT !.err = "OK", !.val = FALSE] ELSE r

\* isfile written as "not self.isdir(path)".
FSSpecWrapper_isfile_not_isdir(p, strict) ==
    LET r == FSSpecWrapper_isdir(p, strict)
    IN  IF r.err = "OK" THEN [r EXCEPT !.val = ~r.val] ELSE r

\* FSSpecWrapper.isfile
FSSpecWrapper_isfile(p, strict) ==
    LET r == isdir_(p, strict)
    IN  IF r.err = "NotFound" THEN [r EXCEPT !.err = "OK", !.val = FALSE]
        ELSE IF r.err = "OK" THEN [r EXCEPT !.val = ~r.val]
        ELSE r

\* NoDirectoriesMixin.isdir
NoDirectoriesMixin_isdir(p) ==
    Result("OK", FALSE, {}, NoEntry, {}, {}, dircache)

\* NoDirectoriesMixin.isfile
NoDirectoriesMixin_isfile(p) ==
    Result("OK", TRUE, {}, NoEntry, {}, {}, dircache)

\* ls left to FSSpecWrapper.
NoDirectoriesMixin_ls_inherited(p) == fs_ls(store, dircache, p, FALSE)

\* NoDirectoriesMixin.find, walk, ls
NoDirectoriesMixin_find(p) == Throw("NotImplementedError", {}, {}, dircache)
NoDirectoriesMixin_walk(p) == Throw("NotImplementedError", {}, {}, dircache)
NoDirectoriesMixin_ls(p) == Throw("NotImplementedError", {}, {}, dircache)

\* self.isdir
isdir(p, strict) ==
    IF mixin = "nodir" THEN NoDirectoriesMixin_isdir(p)
    ELSE FSSpecWrapper_isdir(p, strict)

\* self.isfile
isfile(p, strict) ==
    IF mixin = "nodir" THEN NoDirectoriesMixin_isfile(p)
    ELSE FSSpecWrapper_isfile(p, strict)

\* FSSpecWrapper.is_empty
is_empty(p) ==
    LET e == info(p)
    IN  IF e.err # "OK" THEN e
        ELSE IF e.entry.type = "directory"
        THEN LET l == fs_ls(store, dircache, p, FALSE)
             IN  IF l.err # "OK"
                 THEN [l EXCEPT !.calls = e.calls \cup l.calls]
                 ELSE [l EXCEPT !.val = (l.items = {}), !.items = {},
                                !.calls = e.calls \cup l.calls]
        ELSE [e EXCEPT !.val = (e.entry.size = 0), !.entry = NoEntry]

\* FSSpecWrapper.open, for reading: the stream goes to the caller.
open(p) ==
    LET e == fs_open(store, p, "rb")
    IN  IF e = "OK" THEN Ok({"open"}, dircache) ELSE Raise(e, {"open"}, dircache)

\* FSSpecWrapper.checksum
checksum(p) == fs_checksum(store, dircache, p)

\* FSSpecWrapper.exists
exists(p) == fs_exists(store, dircache, p)

\* FSSpecWrapper.ls
FSSpecWrapper_ls(p, detail) == fs_ls(store, dircache, p, detail)

\* self.ls
ls(p, detail) ==
    IF mixin = "nodir" THEN NoDirectoriesMixin_ls(p) ELSE FSSpecWrapper_ls(p, detail)

\* FSSpecWrapper.find: the prefix is not used.
FSSpecWrapper_find(p, detail, prefix, strict) ==
    fs_find(store, dircache, p, detail, strict)

\* files[0] == path in ObjectFSWrapper.find: with detail the items are
\* entries (dicts), and a dict never equals a path.
ItemEqualsPath(item, path, detail) == ~detail /\ item.name = path

\* The local "path" of ObjectFSWrapper.find: assigned only in the prefix
\* branch.
FindLocalPath(p, prefix) ==
    [bound |-> prefix, value |-> IF prefix THEN parent(p) ELSE pRoot]

\* The prefix search made below the path itself, not below its parent.
FindFilesBelowPath(p, detail, prefix, strict) ==
    IF prefix
    THEN fs_find_prefix(store, dircache, p, detail, lastpart(p), strict)
    ELSE fs_find(store, dircache, p, detail, strict)

\* The driver call ObjectFSWrapper.find makes.
FindFiles(p, detail, prefix, strict) ==
    IF prefix
    THEN fs_find_prefix(store, dircache, parent(p), detail, lastpart(p), strict)
    ELSE fs_find(store, dircache, p, detail, strict)

\* ObjectFSWrapper.find.  The test "len(files) == 1 and files[0] == path and
\* self.isdir(path_info)" is evaluated left to right: with one file found the
\* local "path" is read, and reading it unassigned raises UnboundLocalError.
ObjectFSWrapper_find(p, detail, prefix, strict) ==
    LET path  == FindLocalPath(p, prefix)
        files == FindFiles(p, detail, prefix, strict)
    IN  IF files.err # "OK" THEN files
        ELSE IF Cardinality(files.items) # 1 THEN files
        ELSE IF ~path.bound
        THEN Throw("UnboundLocalError", files.calls, {}, files.cache)
        ELSE IF ~ItemEqualsPath(CHOOSE f \in files.items : TRUE, path.value, detail)
        THEN files
        ELSE LET d == isdir(p, strict)
             IN  IF d.err # "OK"
                 THEN [d EXCEPT !.calls = files.calls \cup d.calls]
                 ELSE IF d.val
                 THEN [files EXCEPT !.items = {},
                                    !.calls = files.calls \cup d.calls,
                                    !.raised = d.raised]
                 ELSE [files EXCEPT !.calls = files.calls \cup d.calls,
                                    !.raised = d.raised]

\* self.find
find(p, detail, prefix, strict) ==
    IF mixin = "nodir" THEN NoDirectoriesMixin_find(p)
    ELSE IF kind = "object" THEN ObjectFSWrapper_find(p, detail, prefix, strict)
    ELSE FSSpecWrapper_find(p, detail, prefix, strict)

----------------------------------------------------------------------------
(* The calls that write *)

\* The exist_ok keyword of a makedirs call: not given, True or False.
ExistOkArgs == {"unset", "True", "False"}

\* exist_ok not taken from the keywords: always True.
PopExistOkIgnored(kw) == TRUE

\* kwargs.pop("exist_ok", True)
PopExistOk(kw) == IF kw = "unset" THEN TRUE ELSE kw = "True"

\* FSSpecWrapper.makedirs
FSSpecWrapper_makedirs(s, c, p, kw) == fs_makedirs(s, c, p, PopExistOk(kw))

\* ObjectFSWrapper.makedirs: a no-op
ObjectFSWrapper_makedirs(s, c, p, kw) == Written("OK", {}, {}, s, c)

\* self.makedirs
makedirs(s, c, p, kw) ==
    IF kind = "object" THEN ObjectFSWrapper_makedirs(s, c, p, kw)
    ELSE FSSpecWrapper_makedirs(s, c, p, kw)

\* remove that treats a missing file as removed.
remove_missing_ok(p) ==
    LET r == fs_rm_file(store, dircache, p)
    IN  IF r.err = "NotFound" THEN [r EXCEPT !.err = "OK"] ELSE r

\* FSSpecWrapper.remove
remove(p) == fs_rm_file(store, dircache, p)

\* FSSpecWrapper.move
move(from, to) == fs_move(store, dircache, from, to)

\* FSSpecWrapper.copy
copy(from, to) ==
    LET m == makedirs(store, dircache, parent(to), "unset")
    IN  IF m.err # "OK" THEN m
        ELSE LET r == fs_copy(m.store, m.cache, from, to)
             IN  [r EXCEPT !.calls = m.calls \cup r.calls]

\* put_file without the invalidation that follows the upload.
FSSpecWrapper_put_file_stale(lf, to) == fs_put_file(store, dircache, lf, to)

\* FSSpecWrapper.put_file
FSSpecWrapper_put_file(lf, to) ==
    LET r == fs_put_file(store, dircache, lf, to)
    IN  IF r.err # "OK" THEN r
        ELSE [r EXCEPT !.cache = fs_invalidate_cache(r.cache, parent(to)),
                       !.calls = r.calls \cup {"invalidate_cache"}]

\* FSSpecWrapper.get_file
FSSpecWrapper_get_file(from, localOk) ==
    fs_get_file(store, dircache, from, localOk)

----------------------------------------------------------------------------
(* The state machine: one caller makes one call at a time.                  *)

NoXfer ==
    [op |-> "none", pc |-> "idle", to |-> pRoot, from |-> pRoot,
     size |-> 0, n |-> 0, stale |-> FALSE]

NoCall ==
    [op |-> "none", path |-> pRoot, to |-> pRoot, detail |-> FALSE,
     prefix |-> FALSE, kw |-> "unset", err |-> "OK", val |-> FALSE,
     items |-> {}, entry |-> NoEntry, calls |-> {}, raised |-> {},
     stale |-> FALSE, changed |-> FALSE, pre |-> "dir"]

\* No call is in progress and the caller has taken the last result.
Idle == xfer.op = "none" /\ last.op = "none"

\* The driver holds a listing of the parent of "to" that lacks "to".
Stale(c, to) == parent(to) \in DOMAIN c /\ Name(to) \notin Names(c[parent(to)])

\* What path p is on backend s.
PathType(s, p) ==
    IF ~DrvExists(s, p) THEN "absent" ELSE IF DrvIsFile(s, p) THEN "file" ELSE "dir"

\* The record of a completed call: its arguments, its outcome, whether the
\* driver held a stale listing for "to" when it started, whether it changed
\* the backend, and what its path was when it started.
Called(op, p, to, detail, prefix, kw, err, val, items, entry, calls, raised, stale, changed) ==
    [op |-> op, path |-> p, to |-> to, detail |-> detail, prefix |-> prefix,
     kw |-> kw, err |-> err, val |-> val, items |-> items, entry |-> entry,
     calls |-> calls, raised |-> raised, stale |-> stale, changed |-> changed,
     pre |-> PathType(store, p)]

\* A call that reads ends with result r.
Returns(op, p, detail, prefix, r) ==
    /\ last' = Called(op, p, pRoot, detail, prefix, "unset", r.err, r.val,
                      r.items, r.entry, r.calls, r.raised, FALSE, FALSE)
    /\ dircache' = r.cache
    /\ UNCHANGED <<kind, mixin, markerStyle, store, streams, xfer>>

\* A call that writes ends with result w.
Writes(op, p, to, kw, w) ==
    /\ last' = Called(op, p, to, FALSE, FALSE, kw, w.err, FALSE, {}, NoEntry,
                      w.calls, w.raised, Stale(dircache, to), w.store # store)
    /\ store' = w.store
    /\ dircache' = w.cache
    /\ UNCHANGED <<kind, mixin, markerStyle, streams, xfer>>

\* The backends a wrapper may be constructed on.
UnderA == {{}, {pABar}, {pABar, pABaz, pAQux}}

FooObjs == {NoObj, FileObj(0), IF kind = "object" THEN MarkerObj ELSE DirObj}

AObjs(files) ==
    IF kind = "object" THEN {NoObj, MarkerObj}
    ELSE IF files = {} THEN {NoObj, DirObj} ELSE {DirObj}

BackendsWith(files) ==
    {[k \in Paths |->
        IF k \in files THEN FileObj(1)
        ELSE IF k = pA THEN a
        ELSE IF k = pFoo THEN foo
        ELSE NoObj] :
      a \in AObjs(files), foo \in FooObjs}

Backends == UNION {BackendsWith(files) : files \in UnderA}

Init ==
    /\ kind \in {"hier", "object"}
    /\ mixin \in {"none", "nodir", "callback"}
    /\ markerStyle \in (IF kind = "object" THEN {"dir", "file"} ELSE {"dir"})
    /\ store \in Backends
    /\ dircache = [d \in {} |-> {}]
    /\ streams = {}
    /\ xfer = NoXfer
    /\ last = NoCall

IsDir ==
    \E p \in Paths, strict \in BOOLEAN :
        Idle /\ Returns("isdir", p, FALSE, FALSE, isdir(p, strict))

IsFile ==
    \E p \in Paths, strict \in BOOLEAN :
        Idle /\ Returns("isfile", p, FALSE, FALSE, isfile(p, strict))

IsEmpty == \E p \in Paths : Idle /\ Returns("is_empty", p, FALSE, FALSE, is_empty(p))

Open == \E p \in Paths : Idle /\ Returns("open", p, FALSE, FALSE, open(p))

Checksum == \E p \in Paths : Idle /\ Returns("checksum", p, FALSE, FALSE, checksum(p))

Exists == \E p \in Paths : Idle /\ Returns("exists", p, FALSE, FALSE, exists(p))

Info == \E p \in Paths : Idle /\ Returns("info", p, FALSE, FALSE, info(p))

Ls ==
    \E p \in Paths, detail \in BOOLEAN :
        Idle /\ Returns("ls", p, detail, FALSE, ls(p, detail))

Find ==
    \E p \in Paths, detail \in BOOLEAN, prefix \in BOOLEAN, strict \in BOOLEAN :
        Idle /\ Returns("find", p, detail, prefix, find(p, detail, prefix, strict))

\* Only NoDirectoriesMixin.walk is part of this file.
Walk ==
    \E p \in Paths :
        /\ Idle
        /\ mixin = "nodir"
        /\ Returns("walk", p, FALSE, FALSE, NoDirectoriesMixin_walk(p))

\* The caller takes the result; the next call may start.
Return ==
    /\ xfer.op = "none"
    /\ last.op # "none"
    /\ last' = NoCall
    /\ UNCHANGED <<kind, mixin, markerStyle, store, dircache, streams, xfer>>

\* The paths the modelled caller writes to.
WriteTargets == {pAQux}

Makedirs ==
    \E p \in DirPaths, kw \in ExistOkArgs :
        Idle /\ Writes("makedirs", p, pRoot, kw, makedirs(store, dircache, p, kw))

Remove == \E p \in Paths : Idle /\ Writes("remove", p, pRoot, "unset", remove(p))

Move ==
    \E from \in Paths, to \in WriteTargets :
        Idle /\ Writes("move", from, to, "unset", move(from, to))

Copy ==
    \E from \in Paths, to \in WriteTargets :
        Idle /\ Writes("copy", from, to, "unset", copy(from, to))

PutFile ==
    \E lf \in LocalFiles, to \in WriteTargets :
        /\ Idle
        /\ mixin # "callback"
        /\ Writes("put_file", pRoot, to, "unset", FSSpecWrapper_put_file(lf, to))

GetFile ==
    \E from \in Paths, localOk \in BOOLEAN :
        /\ Idle
        /\ mixin # "callback"
        /\ Writes("get_file", from, pRoot, "unset",
                  FSSpecWrapper_get_file(from, localOk))

----------------------------------------------------------------------------
(* Transfers through streams: FSSpecWrapper.upload_fobj and CallbackMixin.  *)
(* A stream is named by the variable that holds it: fobj (the source) and   *)
(* fdest (the destination).  Each with-statement closes its streams when    *)
(* its block is left, normally or by an exception (exc).                    *)

\* fdest closed after the copy only, with no with-statement around it.
upload_fobj_exit_leaky(open_, exc) == IF exc THEN open_ ELSE open_ \ {"fdest"}

\* Leaving "with self.open(to_info, "wb") as fdest" of upload_fobj.
upload_fobj_exit(open_, exc) == open_ \ {"fdest"}

\* Leaving "with open(from_file, "rb") as fobj" of CallbackMixin.put_file.
put_file_exit(open_, exc) == open_ \ {"fobj"}

\* Leaving "with self.open(from_info, "rb") as fobj, open(to_info, "wb") as
\* fdest" of CallbackMixin.get_file.
get_file_exit(open_, exc) == open_ \ {"fobj", "fdest"}

\* The transfer ends: the call returns, or raises err.
Ends(err, raised) ==
    /\ last' = Called(xfer.op, xfer.from, xfer.to, FALSE, FALSE, "unset", err,
                      FALSE, {}, NoEntry, {}, raised, xfer.stale, FALSE)
    /\ xfer' = NoXfer

\* A call that starts a transfer and raises before any stream is open.
Refused(op, from, to, err, raised) ==
    /\ last' = Called(op, from, to, FALSE, FALSE, "unset", err, FALSE, {},
                      NoEntry, {}, raised, Stale(dircache, to), FALSE)
    /\ UNCHANGED <<xfer, streams>>

Starts(op, from, to, size, pc) ==
    xfer' = [op |-> op, pc |-> pc, to |-> to, from |-> from, size |-> size,
             n |-> 0, stale |-> Stale(dircache, to)]

\* CallbackMixin.put_file up to the upload: makedirs, getsize, open.
CbPutStart ==
    \E lf \in LocalFiles, to \in WriteTargets :
        /\ Idle
        /\ mixin = "callback"
        /\ LET m == makedirs(store, dircache, parent(to), "unset")
           IN  /\ store' = m.store
               /\ dircache' = m.cache
               /\ IF m.err # "OK"
                  THEN Refused("cb_put_file", pRoot, to, m.err, m.raised)
                  ELSE IF ~lf.exists
                  THEN Refused("cb_put_file", pRoot, to, "NotFound", {})
                  ELSE /\ streams' = streams \cup {"fobj"}
                       /\ Starts("cb_put_file", pRoot, to, lf.size, "upload")
                       /\ UNCHANGED last
        /\ UNCHANGED <<kind, mixin, markerStyle>>

\* An exception leaves the call: every with-block around the point is left.
Unwound(open_) ==
    IF xfer.op = "cb_put_file"
    THEN put_file_exit(IF xfer.pc = "copy" THEN upload_fobj_exit(open_, TRUE)
                       ELSE open_, TRUE)
    ELSE IF xfer.op = "cb_get_file" THEN get_file_exit(open_, TRUE)
    ELSE IF xfer.pc = "copy" THEN upload_fobj_exit(open_, TRUE)
    ELSE open_

\* upload_fobj up to the copy: makedirs, then the destination is opened.
\* Called by the caller, with a stream of its own of some size, or by
\* CallbackMixin.put_file.  ioOk: the driver opens the stream.
UploadFobjOpen ==
    \E to \in WriteTargets, size \in 0..MaxChunks, ioOk \in BOOLEAN :
        /\ \/ Idle
           \/ xfer.op = "cb_put_file" /\ xfer.pc = "upload"
                /\ to = xfer.to /\ size = xfer.size
        /\ LET m == makedirs(store, dircache, parent(to), "unset")
               e == IF m.err # "OK" THEN m.err
                    ELSE IF fs_open(m.store, to, "wb") # "OK"
                    THEN fs_open(m.store, to, "wb")
                    ELSE IF ~ioOk THEN "IOError" ELSE "OK"
           IN  /\ store' = m.store
               /\ dircache' = m.cache
               /\ IF e = "OK"
                  THEN /\ streams' = streams \cup {"fdest"}
                       /\ IF Idle
                          THEN Starts("upload_fobj", pRoot, to, size, "copy")
                          ELSE xfer' = [xfer EXCEPT !.pc = "copy"]
                       /\ UNCHANGED last
                  ELSE IF Idle
                  THEN Refused("upload_fobj", pRoot, to, e, {e})
                  ELSE /\ streams' = Unwound(streams)
                       /\ Ends(e, {e})
        /\ UNCHANGED <<kind, mixin, markerStyle>>

\* CallbackMixin.get_file up to the remote stream: getsize, self.open.
CbGetStart ==
    \E from \in Paths :
        /\ Idle
        /\ mixin = "callback"
        /\ LET i == info(from)
               e == IF i.err # "OK" THEN i.err ELSE fs_open(store, from, "rb")
           IN  IF e # "OK"
               THEN Refused("cb_get_file", from, pRoot, e, {e})
               ELSE /\ streams' = streams \cup {"fobj"}
                    /\ Starts("cb_get_file", from, pRoot, i.entry.size, "open_local")
                    /\ UNCHANGED last
        /\ UNCHANGED <<kind, mixin, markerStyle, store, dircache>>

\* CallbackMixin.get_file: open(to_info, "wb"), which may fail.
CbGetOpenLocal ==
    \E localOk \in BOOLEAN :
        /\ xfer.op = "cb_get_file"
        /\ xfer.pc = "open_local"
        /\ IF localOk
           THEN /\ streams' = streams \cup {"fdest"}
                /\ xfer' = [xfer EXCEPT !.pc = "copy"]
                /\ UNCHANGED last
           ELSE /\ streams' = Unwound(streams)
                /\ Ends("IOError", {})
        /\ UNCHANGED <<kind, mixin, markerStyle, store, dircache>>

\* shutil.copyfileobj: one chunk is read and written.
CopyChunk ==
    /\ xfer.pc = "copy"
    /\ xfer.n < xfer.size
    /\ xfer' = [xfer EXCEPT !.n = xfer.n + 1]
    /\ UNCHANGED <<kind, mixin, markerStyle, store, dircache, streams, last>>

\* shutil.copyfileobj: a read or a write raises.
CopyFails ==
    /\ xfer.pc = "copy"
    /\ streams' = Unwound(streams)
    /\ Ends("CopyError", {})
    /\ UNCHANGED <<kind, mixin, markerStyle, store, dircache>>

\* The copy of upload_fobj is complete: the with-block is left, the object
\* is written.
UploadFobjClose ==
    /\ xfer.op \in {"upload_fobj", "cb_put_file"}
    /\ xfer.pc = "copy"
    /\ xfer.n = xfer.size
    /\ streams' = upload_fobj_exit(streams, FALSE)
    /\ store' = [store EXCEPT ![xfer.to] = FileObj(xfer.size)]
    /\ IF xfer.op = "upload_fobj"
       THEN Ends("OK", {})
       ELSE xfer' = [xfer EXCEPT !.pc = "invalidate"] /\ UNCHANGED last
    /\ UNCHANGED <<kind, mixin, markerStyle, dircache>>

\* The cache entries CallbackMixin.put_file drops after the upload.
CallbackMixin_put_file_invalidate(c, to) == fs_invalidate_cache(c, parent(to))

\* CallbackMixin.put_file after the upload: invalidate_cache, then the
\* with-block is left.
CbPutEnd ==
    /\ xfer.op = "cb_put_file"
    /\ xfer.pc = "invalidate"
    /\ dircache' = CallbackMixin_put_file_invalidate(dircache, xfer.to)
    /\ streams' = put_file_exit(streams, FALSE)
    /\ Ends("OK", {})
    /\ UNCHANGED <<kind, mixin, markerStyle, store>>

\* The copy of CallbackMixin.get_file is complete: the with-block is left.
CbGetEnd ==
    /\ xfer.op = "cb_get_file"
    /\ xfer.pc = "copy"
    /\ xfer.n = xfer.size
    /\ streams' = get_file_exit(streams, FALSE)
    /\ Ends("OK", {})
    /\ UNCHANGED <<kind, mixin, markerStyle, store, dircache>>

Next ==
    \/ IsDir \/ IsFile \/ IsEmpty \/ Open \/ Checksum \/ Exists \/ Info
    \/ Ls \/ Find \/ Walk
    \/ Makedirs \/ Remove \/ Move \/ Copy \/ PutFile \/ GetFile
    \/ CbPutStart \/ UploadFobjOpen \/ CbGetStart \/ CbGetOpenLocal
    \/ CopyChunk \/ CopyFails \/ UploadFobjClose \/ CbPutEnd \/ CbGetEnd
    \/ Return

Spec == Init /\ [][Next]_vars

----------------------------------------------------------------------------
(* The claims *)

ItemNames(items) == {i.name : i \in items}

\* An ObjectFSWrapper whose isdir, isfile, find and ls are its own.
OnObjectStore == kind = "object" /\ mixin # "nodir"

\* C1: on the object-store wrapper, find(p) with prefix unset, where p is a
\* single existing file and the driver's find reports exactly that file, ends
\* without error and yields exactly one item, that file, with detail and
\* without.
C1_FindSingleFile ==
    ( /\ OnObjectStore
      /\ last.op = "find"
      /\ ~last.prefix
      /\ last.pre = "file"
      /\ ItemNames(fs_find(store, dircache, last.path, last.detail, FALSE).items)
            = {last.path} )
    => /\ last.err = "OK"
       /\ Cardinality(last.items) = 1
       /\ ItemNames(last.items) = {last.path}

\* C2: on the object-store wrapper, find(p) where p is an empty simulated
\* directory (the driver's find reports the single entry p, and isdir(p) is
\* true) yields nothing, with detail and without, with prefix set and unset.
C2_FindEmptyDirectory ==
    ( /\ OnObjectStore
      /\ last.op = "find"
      /\ store[last.path].t = "marker"
      /\ ItemNames(FindFiles(last.path, last.detail, last.prefix, FALSE).items)
            = {last.path}
      /\ isdir(last.path, FALSE).val )
    => /\ last.err = "OK"
       /\ last.items = {}

\* C3: after a successful put_file (FSSpecWrapper's or CallbackMixin's) the
\* driver holds no cached listing of the parent of the destination, and the
\* ls of that parent that follows lists the destination.
C3_PutFileInvalidates ==
    (last.op \in {"put_file", "cb_put_file"} /\ last.err = "OK")
    => /\ parent(last.to) \notin DOMAIN dircache
       /\ FSSpecWrapper_ls(parent(last.to), FALSE).err = "OK"
       /\ Name(last.to) \in FSSpecWrapper_ls(parent(last.to), FALSE).items

\* A put_file succeeded while the driver held a listing of the parent, made
\* before the upload, that lacks the destination.
C3_Witness ==
    /\ last.op = "put_file"
    /\ last.err = "OK"
    /\ last.stale
    /\ kind = "object"

\* C4 as claimed: makedirs on an existing directory changes nothing and
\* succeeds when exist_ok is true, and fails with AlreadyExists when exist_ok
\* is false, on every wrapper.
C4_MakedirsOnEveryWrapper ==
    (last.op = "makedirs" /\ last.pre = "dir")
    => /\ ~last.changed
       /\ last.kw # "False" => last.err = "OK"
       /\ last.kw = "False" => last.err = "AlreadyExists"

\* C4 as amended: makedirs on an existing directory changes nothing; on the
\* hierarchical wrapper it succeeds when exist_ok is true and fails with
\* AlreadyExists when exist_ok is false; on the object-store wrapper it
\* succeeds whatever exist_ok is.
C4_MakedirsExisting ==
    (last.op = "makedirs" /\ last.pre = "dir")
    => /\ ~last.changed
       /\ kind = "hier" /\ last.kw # "False" => last.err = "OK"
       /\ kind = "hier" /\ last.kw = "False" => last.err = "AlreadyExists"
       /\ kind = "object" => last.err = "OK"

C4_Witness ==
    /\ kind = "hier"
    /\ last.op = "makedirs"
    /\ last.pre = "dir"
    /\ last.kw = "False"
    /\ last.err = "AlreadyExists"

\* C5: for a path that does not exist, where the driver's directory check or
\* stat raises NotFound, isdir and isfile both return false and do not raise,
\* on the hierarchical and on the object-store wrapper.
C5_AbsentIsNeither ==
    ( /\ last.op \in {"isdir", "isfile"}
      /\ last.pre = "absent"
      /\ "NotFound" \in last.raised )
    => /\ last.err = "OK"
       /\ last.val = FALSE

C5_Witness ==
    /\ kind = "hier"
    /\ last.op = "isfile"
    /\ last.pre = "absent"
    /\ "NotFound" \in last.raised
    /\ last.err = "OK"
    /\ ~last.val

\* C6: on the object-store wrapper, for a path p whose marker object "p/" is
\* in the store, isdir(p) is true and isfile(p) is false; and isdir(p) is true
\* exactly when the entry of p has type directory, or has size zero, type file
\* and a name that ends in the separator.
C6_MarkerIsDirectory ==
    (OnObjectStore /\ last.op \in {"isdir", "isfile"})
    => /\ last.err = "OK"
       /\ store[last.path].t = "marker" => (last.val <=> last.op = "isdir")
       /\ last.op = "isdir" =>
            ( last.val <=>
                /\ last.pre # "absent"
                /\ LET e == DrvEntry(store, last.path)
                   IN  \/ e.type = "directory"
                       \/ e.size = 0 /\ e.type = "file" /\ e.name[Len(e.name)] = SEP )

\* isdir("foo") is true where the driver reports the marker as the zero-byte
\* file "foo/".
C6_Witness ==
    /\ OnObjectStore
    /\ markerStyle = "file"
    /\ store[pFoo].t = "marker"
    /\ last.op = "isdir"
    /\ last.path = pFoo
    /\ last.val

\* The backend holds exactly the files a/bar, a/baz and a/qux.
BarBazQux ==
    \A k \in Paths :
        IF k \in {pABar, pABaz, pAQux} THEN store[k].t = "file"
        ELSE store[k].t = "none"

\* C7: on the object-store wrapper, find("a/b", prefix=true) on a backend that
\* holds exactly a/bar, a/baz and a/qux yields exactly a/bar and a/baz; and a
\* prefix find yields exactly the keys below the parent of the path whose last
\* segment starts with the last segment of the path.
C7_PrefixFind ==
    (OnObjectStore /\ last.op = "find" /\ last.prefix)
    => /\ (BarBazQux /\ last.path = pAB) =>
            last.err = "OK" /\ ItemNames(last.items) = {pABar, pABaz}
       /\ last.err = "OK" =>
            ItemNames(last.items) =
                {k \in Paths : /\ store[k].t \in {"file", "marker"}
                               /\ Under(parent(last.path), k)
                               /\ startswith(lastpart(k), lastpart(last.path))}

C7_Witness ==
    /\ OnObjectStore
    /\ BarBazQux
    /\ last.op = "find"
    /\ last.prefix
    /\ last.path = pAB
    /\ ItemNames(last.items) = {pABar, pABaz}

\* C8: but for isdir and isfile, a call in which the driver raised NotFound
\* ends with NotFound: it does not return normally and raises nothing else.
C8_NotFoundPropagates ==
    (last.op \notin {"none", "isdir", "isfile"} /\ "NotFound" \in last.raised)
    => last.err = "NotFound"

C8_Witness ==
    /\ last.op = "copy"
    /\ last.pre = "absent"
    /\ "NotFound" \in last.raised
    /\ last.err = "NotFound"

\* C9: when upload_fobj, CallbackMixin.put_file or CallbackMixin.get_file has
\* ended, by return or by an exception, no stream it opened is open.
C9_StreamsClosed == xfer.op = "none" => streams = {}

\* CallbackMixin.put_file ended by an exception of the copy loop, with both of
\* its streams closed.
C9_Witness ==
    /\ last.op = "cb_put_file"
    /\ last.err = "CopyError"
    /\ streams = {}

\* C10: with NoDirectoriesMixin, isdir returns false and isfile returns true
\* for every path, existing or not, and find, ls and walk raise
\* NotImplementedError; none of them calls the driver.
C10_NoDirectories ==
    (mixin = "nodir" /\ last.op \in {"isdir", "isfile", "find", "ls", "walk"})
    => /\ last.calls = {}
       /\ last.op = "isdir" => last.err = "OK" /\ ~last.val
       /\ last.op = "isfile" => last.err = "OK" /\ last.val
       /\ last.op \in {"find", "ls", "walk"} => last.err = "NotImplementedError"

C10_Witness ==
    /\ mixin = "nodir"
    /\ last.op = "ls"
    /\ last.pre = "dir"
    /\ last.err = "NotImplementedError"

====
